---- MODULE Spec2Model ----
(***************************************************************************)
(* Model of app.py: the content normaliser (_normalize_content_parts),     *)
(* the response text extractor (_extract_text_from_response), the /analyze *)
(* relay handler and the /create-report handler.                           *)
(*                                                                         *)
(* JSON values are records of one shape per position, tagged by a kind k:  *)
(*   "absent" (key missing, .get gives None), "null", "num", "str",        *)
(*   "list", "dict".                                                       *)
(* Texts whose characters matter (strip, split, join) are sequences of     *)
(* one-character strings.                                                  *)
(***************************************************************************)
EXTENDS Integers, Sequences, FiniteSets, TLC

VARIABLES
    \* _normalize_content_parts
    npc, content_parts, normalized, renormalized,
    \* _extract_text_from_response
    epc, response_payload, extracted,
    \* /analyze
    API_KEY, apc, a_request, sent, upstream_calls, upstream, a_response,
    \* /create-report
    rpc, r_request, document, index, r_response

nvars == <<npc, content_parts, normalized, renormalized>>
evars == <<epc, response_payload, extracted>>
avars == <<API_KEY, apc, a_request, sent, upstream_calls, upstream, a_response>>
rvars == <<rpc, r_request, document, index, r_response>>

(***************************************************************************)
(* Bounds                                                                  *)
(***************************************************************************)
MaxParts == 3
MaxItems == 2
MaxBlocks == 2
MaxResults == 2
MaxImages == 2

(***************************************************************************)
(* JSON values                                                             *)
(***************************************************************************)
JV(k, s) == [k |-> k, s |-> s]
Absent == JV("absent", "")
Null == JV("null", "")
Num == JV("num", "")
Str(s) == JV("str", s)
ListV == JV("list", "")

\* The value under "image_url": a scalar, or a mapping whose "url" is url.
IV(k, s, url) == [k |-> k, s |-> s, url |-> url]
IAbsent == IV("absent", "", Absent)
INum == IV("num", "", Absent)
IStr(s) == IV("str", s, Absent)
IDict(url) == IV("dict", "", url)

\* One element of content_parts.  k = "dict" is a mapping with the keys
\* "type", "text", "image_url"; extra stands for its remaining keys.
Part(k, type, text, image_url, extra) ==
    [k |-> k, type |-> type, text |-> text, image_url |-> image_url, extra |-> extra]
NonMapping(k) == Part(k, Absent, Absent, IAbsent, "")
Mapping(type, text, image_url, extra) == Part("dict", type, text, image_url, extra)

\* isinstance(v, str), and Python's hash(v) succeeding
IsStr(v) == v.k = "str"
Hashable(v) == v.k \notin {"list", "dict"}
\* part_type in {...}: membership in a set literal hashes part_type
InSet(v, S) == IsStr(v) /\ v.s \in S

TextTypes == {"text", "input_text"}
ImageTypes == {"image_url", "input_image"}
PassTypes == {"input_audio", "input_video", "input_file"}

\* Result of a call: the returned list, or raised = TRUE (TypeError).
Returned(seq) == [raised |-> FALSE, value |-> seq]
Raised == [raised |-> TRUE, value |-> <<>>]

(***************************************************************************)
(* _normalize_content_parts                                                *)
(***************************************************************************)
\* url_value: image_url.get("url") for a mapping, image_url itself otherwise
UrlValue(image_url) ==
    IF image_url.k = "dict" THEN image_url.url ELSE JV(image_url.k, image_url.s)

\* The body of the for loop for one part: what is appended to normalized.
NormalizePartKeepsTag(part) ==
    IF part.k # "dict" THEN Returned(<<>>)
    ELSE IF ~Hashable(part.type) THEN Raised
    ELSE IF InSet(part.type, TextTypes) THEN
        IF IsStr(part.text)
        THEN Returned(<<Mapping(part.type, part.text, IAbsent, "")>>)
        ELSE Returned(<<>>)
    ELSE IF InSet(part.type, ImageTypes) THEN
        LET url_value == UrlValue(part.image_url) IN
        IF IsStr(url_value) /\ url_value.s # ""
        THEN Returned(<<Mapping(part.type, Absent, IStr(url_value.s), "")>>)
        ELSE Returned(<<>>)
    ELSE IF InSet(part.type, PassTypes) THEN Returned(<<part>>)
    ELSE Returned(<<>>)
NormalizePart(part) ==
    IF part.k # "dict" THEN Returned(<<>>)
    ELSE IF ~Hashable(part.type) THEN Raised
    ELSE IF InSet(part.type, TextTypes) THEN
        IF IsStr(part.text)
        THEN Returned(<<Mapping(Str("input_text"), part.text, IAbsent, "")>>)
        ELSE Returned(<<>>)
    ELSE IF InSet(part.type, ImageTypes) THEN
        LET url_value == UrlValue(part.image_url) IN
        IF IsStr(url_value) /\ url_value.s # ""
        THEN Returned(<<Mapping(Str("input_image"), Absent, IStr(url_value.s), "")>>)
        ELSE Returned(<<>>)
    ELSE IF InSet(part.type, PassTypes) THEN Returned(<<part>>)
    ELSE Returned(<<>>)

RECURSIVE NormalizeLoop(_, _, _)
NormalizeLoop(parts, i, acc) ==
    IF i > Len(parts) THEN Returned(acc)
    ELSE LET r == NormalizePart(parts[i]) IN
         IF r.raised THEN Raised
         ELSE NormalizeLoop(parts, i + 1, acc \o r.value)

IsMapping(p) == p.k = "dict"

\* if not normalized: re-emit every original mapping element
FallbackAll(parts, acc) == IF acc = <<>> THEN parts ELSE acc
FallbackAlways(parts, acc) == acc \o SelectSeq(parts, IsMapping)
Fallback(parts, acc) ==
    IF acc = <<>> THEN SelectSeq(parts, IsMapping) ELSE acc

NormalizeContentParts(cp) ==
    IF cp.k # "list" THEN Returned(<<>>)
    ELSE LET r == NormalizeLoop(cp.items, 1, <<>>) IN
         IF r.raised THEN Raised
         ELSE Returned(Fallback(cp.items, r.value))

(***************************************************************************)
(* Inputs of the normaliser                                                *)
(***************************************************************************)
PartUniverse ==
    { NonMapping("num") }
    \cup { Mapping(Str(t), x, IAbsent, "") :
             t \in TextTypes, x \in {Str("a"), Num} }
    \cup { Mapping(Str("text"), Str(""), IAbsent, "k") }
    \cup { Mapping(Str("image_url"), Absent, u, "") :
             u \in {IDict(Str("u")), IStr("v"), IStr(""), IDict(Absent)} }
    \cup { Mapping(Str("input_image"), Absent, u, "") : u \in {IStr("u"), INum} }
    \cup { Mapping(Str(t), Absent, IAbsent, "data") : t \in {"input_audio", "input_file"} }
    \cup { Mapping(t, Absent, IAbsent, "") : t \in {Str("other"), Absent, ListV} }

RECURSIVE SeqsUpTo(_, _)
SeqsUpTo(S, n) ==
    IF n = 0 THEN {<<>>}
    ELSE LET shorter == SeqsUpTo(S, n - 1) IN
         shorter \cup { Append(q, x) : q \in {r \in shorter : Len(r) = n - 1}, x \in S }

ListOf(items) == [k |-> "list", items |-> items]
NonList(k) == [k |-> k, items |-> <<>>]

ContentPartsUniverse ==
    { ListOf(q) : q \in SeqsUpTo(PartUniverse, MaxParts) } \cup { NonList("null"), NonList("dict") }

NoResult == [raised |-> FALSE, value |-> <<>>]

NInit ==
    /\ npc = "start"
    /\ content_parts \in ContentPartsUniverse
    /\ normalized = NoResult
    /\ renormalized = NoResult

\* normalized = _normalize_content_parts(content_parts)
Normalize ==
    /\ npc = "start"
    /\ normalized' = NormalizeContentParts(content_parts)
    /\ npc' = "normalized"
    /\ UNCHANGED <<content_parts, renormalized>>

\* the output fed to _normalize_content_parts again
Renormalize ==
    /\ npc = "normalized"
    /\ renormalized' = IF normalized.raised THEN Raised
                       ELSE NormalizeContentParts(ListOf(normalized.value))
    /\ npc' = "renormalized"
    /\ UNCHANGED <<content_parts, normalized>>

(***************************************************************************)
(* _extract_text_from_response                                             *)
(***************************************************************************)
\* A JSON value at a position read as text: cs is the string's characters.
TV(k, cs) == [k |-> k, cs |-> cs]
TAbsent == TV("absent", <<>>)
TNum == TV("num", <<>>)
TStr(cs) == TV("str", cs)

Whitespace == {" ", "\n"}

RECURSIVE LStrip(_)
LStrip(cs) ==
    IF cs # <<>> /\ Head(cs) \in Whitespace THEN LStrip(Tail(cs)) ELSE cs

RECURSIVE RStrip(_)
RStrip(cs) ==
    IF cs # <<>> /\ cs[Len(cs)] \in Whitespace
    THEN RStrip(SubSeq(cs, 1, Len(cs) - 1)) ELSE cs

\* str.strip()
Strip(cs) == RStrip(LStrip(cs))

\* "\n".join(collected)
RECURSIVE Join(_)
Join(strs) ==
    IF strs = <<>> THEN <<>>
    ELSE IF Len(strs) = 1 THEN strs[1]
    ELSE strs[1] \o <<"\n">> \o Join(Tail(strs))

\* Result of the extractor: the returned string, or raised = TRUE.
ReturnedText(cs) == [raised |-> FALSE, text |-> cs]
RaisedText == [raised |-> TRUE, text |-> <<>>]

\* A content block: k = "dict" is a mapping with the key "text".
Block(k, text) == [k |-> k, text |-> text]
\* The value under an item's "content".
Contents(k, blocks) == [k |-> k, blocks |-> blocks]
\* An element of "output": k = "dict" is a mapping with "type" and "content".
Item(k, type, content) == [k |-> k, type |-> type, content |-> content]
\* choices[0].message and choices[0]
Message(k, content) == [k |-> k, content |-> content]
Choice(k, message) == [k |-> k, message |-> message]
Choices(k, items) == [k |-> k, items |-> items]
Output(k, items) == [k |-> k, items |-> items]
Payload(k, output_text, output, choices) ==
    [k |-> k, output_text |-> output_text, output |-> output, choices |-> choices]

\* Python truthiness of the value under "content"
ContentsTruthy(c) ==
    CASE c.k = "list" -> c.blocks # <<>>
      [] c.k \in {"absent", "null"} -> FALSE
      [] OTHER -> TRUE

\* item.get("content") or []
ContentsOrEmpty(c) == IF ContentsTruthy(c) THEN c ELSE Contents("list", <<>>)

\* The inner loop body: the texts one content block adds to collected.
CollectBlock(content) ==
    IF content.k # "dict" THEN <<>>
    ELSE IF content.text.k = "str" /\ content.text.cs # <<>>
         THEN <<content.text.cs>> ELSE <<>>

RECURSIVE CollectBlocks(_)
CollectBlocks(blocks) ==
    IF blocks = <<>> THEN <<>>
    ELSE CollectBlock(Head(blocks)) \o CollectBlocks(Tail(blocks))

\* The outer loop body: the texts one output item adds to collected, or a
\* raise when a method is called on a value that does not have it.
CollectItemUnchecked(item) ==
    IF item.k # "dict" THEN Raised
    ELSE IF ~(item.type.k = "str" /\ item.type.s = "message") THEN Returned(<<>>)
    ELSE LET contents == ContentsOrEmpty(item.content) IN
         IF contents.k # "list" THEN Returned(<<>>)
         ELSE Returned(CollectBlocks(contents.blocks))
CollectItem(item) ==
    IF item.k # "dict" THEN Returned(<<>>)
    ELSE IF ~(item.type.k = "str" /\ item.type.s = "message") THEN Returned(<<>>)
    ELSE LET contents == ContentsOrEmpty(item.content) IN
         IF contents.k # "list" THEN Returned(<<>>)
         ELSE Returned(CollectBlocks(contents.blocks))

RECURSIVE CollectItems(_, _)
CollectItems(items, acc) ==
    IF items = <<>> THEN Returned(acc)
    ELSE LET r == CollectItem(Head(items)) IN
         IF r.raised THEN Raised
         ELSE CollectItems(Tail(items), acc \o r.value)

\* collected after the scan of "output"
Collected(payload) ==
    IF payload.output.k = "list" THEN CollectItems(payload.output.items, <<>>)
    ELSE Returned(<<>>)

\* rule 1: isinstance(output_text, str) and output_text.strip()
OutputTextApplies(output_text) ==
    output_text.k = "str" /\ Strip(output_text.cs) # <<>>

\* rule 3: the legacy choices[0].message.content
LegacyContent(choices) ==
    IF choices.k = "list" /\ choices.items # <<>>
    THEN LET first_choice == choices.items[1] IN
         IF first_choice.k = "dict" /\ first_choice.message.k = "dict"
            /\ first_choice.message.content.k = "str"
         THEN ReturnedText(first_choice.message.content.cs)
         ELSE ReturnedText(<<>>)
    ELSE ReturnedText(<<>>)

LegacyFirst(payload) ==
    LET legacy == LegacyContent(payload.choices)
        c == Collected(payload) IN
    IF legacy.text # <<>> THEN legacy
    ELSE IF c.raised THEN RaisedText
    ELSE ReturnedText(Join(c.value))
AfterOutputText(payload) ==
    LET c == Collected(payload) IN
    IF c.raised THEN RaisedText
    ELSE IF c.value # <<>> THEN ReturnedText(Join(c.value))
    ELSE LegacyContent(payload.choices)

ExtractStripped(payload) ==
    IF payload.k # "dict" THEN ReturnedText(<<>>)
    ELSE IF OutputTextApplies(payload.output_text)
         THEN ReturnedText(Strip(payload.output_text.cs))
    ELSE AfterOutputText(payload)
ExtractTextFromResponse(payload) ==
    IF payload.k # "dict" THEN ReturnedText(<<>>)
    ELSE IF OutputTextApplies(payload.output_text) THEN ReturnedText(payload.output_text.cs)
    ELSE AfterOutputText(payload)

(***************************************************************************)
(* Inputs of the extractor                                                 *)
(***************************************************************************)
BlockUniverse ==
    { Block("num", TAbsent) }
    \cup { Block("dict", t) : t \in {TStr(<<"a">>), TStr(<<"b">>), TStr(<<>>)} }

ContentsUniverse ==
    { Contents("list", q) : q \in SeqsUpTo(BlockUniverse, MaxBlocks) }
    \cup { Contents("absent", <<>>), Contents("num", <<>>) }

ItemUniverse ==
    { Item("num", Absent, Contents("absent", <<>>)) }
    \cup { Item("dict", Str("message"), c) : c \in ContentsUniverse }
    \cup { Item("dict", Str("message"), Contents("list", <<Block("dict", TNum)>>)) }
    \cup { Item("dict", Str("reasoning"), Contents("list", <<Block("dict", TStr(<<"a">>))>>)) }

OutputUniverse ==
    { Output("list", q) : q \in SeqsUpTo(ItemUniverse, MaxItems) }

\* Outputs of every wrong type, and one well-formed message.
OddOutputUniverse ==
    { Output("absent", <<>>), Output("num", <<>>), Output("list", <<>>),
      Output("list", <<Item("dict", Str("message"),
                            Contents("list", <<Block("dict", TStr(<<"a">>))>>))>>),
      Output("list", <<Item("num", Absent, Contents("absent", <<>>)),
                       Item("dict", Str("message"),
                            Contents("list", <<Block("num", TAbsent), Block("dict", TNum)>>))>>) }

OutputTextUniverse == { TAbsent, TNum, TStr(<<"h", " ">>), TStr(<<" ">>), TStr(<<>>) }

NoMessage == Message("absent", TAbsent)
LegacyChoices == Choices("list", <<Choice("dict", Message("dict", TStr(<<"l">>)))>>)
ChoicesUniverse ==
    { Choices("absent", <<>>), Choices("list", <<>>),
      Choices("list", <<Choice("num", NoMessage)>>),
      Choices("list", <<Choice("dict", NoMessage)>>),
      Choices("list", <<Choice("dict", Message("dict", TNum))>>),
      LegacyChoices }

NoPayload(k) == Payload(k, TAbsent, Output("absent", <<>>), Choices("absent", <<>>))

PayloadUniverse ==
    { Payload("dict", t, o, c) :
        t \in OutputTextUniverse, o \in OddOutputUniverse, c \in ChoicesUniverse }
    \cup { Payload("dict", t, o, c) :
        t \in {TAbsent, TStr(<<" ">>)}, o \in OutputUniverse,
        c \in {Choices("absent", <<>>), LegacyChoices} }
    \cup { NoPayload("null"), NoPayload("num"), NoPayload("list") }

EInit ==
    /\ epc = "start"
    /\ response_payload \in PayloadUniverse
    /\ extracted = ReturnedText(<<>>)

\* extracted = _extract_text_from_response(response_payload)
Extract ==
    /\ epc = "start"
    /\ extracted' = ExtractTextFromResponse(response_payload)
    /\ epc' = "extracted"
    /\ UNCHANGED response_payload

(***************************************************************************)
(* /analyze                                                                *)
(***************************************************************************)
\* if not API_KEY
KeyIsNone(key) == key.k = "absent"
KeyMissing(key) == key.k = "absent" \/ key.s = ""

\* model_presets
Preset(max_output_tokens, temperature, top_p) ==
    [max_output_tokens |-> max_output_tokens, temperature |-> temperature, top_p |-> top_p]
ModelPresets(model) ==
    IF model = "gpt-4o" THEN Preset(3072, "0.6", "0.9") ELSE Preset(4096, "0.2", "0.8")
PresetNames == {"gpt-5-mini", "gpt-4o"}

\* The request: body is "dict" (a JSON object), "other" (another JSON
\* value), "malformed" (JSON content type, unparsable body) or
\* "not_json" (another content type).
Request(body, model, cp) == [body |-> body, model |-> model, content_parts |-> cp]
NoRequest == Request("none", Absent, NonList("null"))

\* The JSON posted upstream.
SentPayload(model, content) ==
    [model |-> model, content |-> content, options |-> ModelPresets(model)]
NothingSent == [model |-> "", content |-> <<>>, options |-> Preset(0, "", "")]

\* What the handler returns: kind "json" is a jsonify'd body, "framework"
\* an error page Flask makes for an unreadable request, "unhandled" an
\* exception that left the handler.
Response(kind, status, error, text) ==
    [kind |-> kind, status |-> status, error |-> error, text |-> text]
NoResponse == Response("none", 0, "", <<>>)
MissingKeyResponse == Response("json", 500, "missing_key", <<>>)
Unhandled == Response("unhandled", 500, "", <<>>)

\* The outcome of requests.post: exc is "none" (a response came back),
\* "connection" (no response) or "redirects" (TooManyRedirects, which
\* carries the last response).  body is the shape of the response body.
Upstream(exc, has_response, status, body, payload) ==
    [exc |-> exc, has_response |-> has_response, status |-> status,
     body |-> body, payload |-> payload]
NoUpstream == Upstream("pending", FALSE, 0, "", NoPayload("null"))

ErrorBodies ==
    {"error_message", "error_empty", "no_error", "error_string", "json_list", "not_json"}
ExtractablePayloads ==
    { Payload("dict", TStr(<<"h">>), Output("absent", <<>>), Choices("absent", <<>>)),
      Payload("dict", TAbsent, Output("absent", <<>>), LegacyChoices) }

UpstreamUniverse ==
    { Upstream("connection", FALSE, 0, "", NoPayload("null")) }
    \cup { Upstream("redirects", TRUE, 302, b, NoPayload("null")) : b \in ErrorBodies }
    \cup { Upstream("none", TRUE, st, b, NoPayload("null")) :
             st \in {200, 304, 401, 503}, b \in ErrorBodies }
    \cup { Upstream("none", TRUE, 200, "payload", pl) : pl \in ExtractablePayloads }

\* Response.raise_for_status raises HTTPError for 400 <= status < 600
RaisesForStatus(status) == 400 <= status /\ status < 600

\* bool(e.response): None is false, and a Response is true iff it is ok,
\* that is iff raise_for_status would not raise
ResponseTruthy(u) == u.has_response /\ ~RaisesForStatus(u.status)

\* response.json() as a payload for the extractor
BodyAsPayload(u) ==
    CASE u.body = "payload" -> u.payload
      [] u.body = "json_list" -> NoPayload("list")
      [] OTHER -> Payload("dict", TAbsent, Output("absent", <<>>), Choices("absent", <<>>))

\* The except branch: the error text chosen for exception e, or an
\* AttributeError leaving the handler.
ErrorMessage(u) ==
    IF ~ResponseTruthy(u) THEN [escaped |-> FALSE, source |-> "exc_str"]
    ELSE CASE u.body = "not_json" -> [escaped |-> FALSE, source |-> "raw_text"]
           [] u.body \in {"json_list", "error_string"} -> [escaped |-> TRUE, source |-> ""]
           [] u.body = "error_message" -> [escaped |-> FALSE, source |-> "body_message"]
           [] OTHER -> [escaped |-> FALSE, source |-> "unknown_default"]

ErrorResponse(u) ==
    LET m == ErrorMessage(u) IN
    IF m.escaped THEN Unhandled ELSE Response("json", 500, m.source, <<>>)

RequestUniverse ==
    { Request("dict", m, cp) :
        m \in {Absent, Str("gpt-5-mini"), Str("gpt-4o"), Str("gpt-3"), ListV},
        cp \in { ListOf(<<>>), NonList("null"),
                 ListOf(<<Mapping(Str("text"), Str("a"), IAbsent, "")>>),
                 ListOf(<<Mapping(ListV, Absent, IAbsent, "")>>) } }
    \cup { Request(b, Absent, NonList("null")) : b \in {"other", "malformed", "not_json"} }

AInit ==
    /\ API_KEY \in {Absent, Str(""), Str("sk")}
    /\ apc = "idle"
    /\ a_request = NoRequest
    /\ sent = NothingSent
    /\ upstream_calls = 0
    /\ upstream = NoUpstream
    /\ a_response = NoResponse

\* A POST /analyze arrives.
AnalyzeReceive ==
    /\ apc \in {"idle", "done"}
    /\ \E r \in RequestUniverse : a_request' = r
    /\ apc' = "handling"
    /\ sent' = NothingSent
    /\ upstream_calls' = 0
    /\ upstream' = NoUpstream
    /\ a_response' = NoResponse
    /\ UNCHANGED API_KEY

AnalyzeDone(resp) ==
    /\ a_response' = resp
    /\ apc' = "done"
    /\ UNCHANGED <<API_KEY, a_request, sent, upstream_calls, upstream>>

\* analyze() up to the try block: the key check, request.json, the
\* normalisation and the payload.
AnalyzePrepare ==
    /\ apc = "handling"
    /\ IF KeyMissing(API_KEY) THEN AnalyzeDone(MissingKeyResponse)
       ELSE IF a_request.body = "not_json" THEN AnalyzeDone(Response("framework", 415, "", <<>>))
       ELSE IF a_request.body = "malformed" THEN AnalyzeDone(Response("framework", 400, "", <<>>))
       ELSE IF a_request.body # "dict" THEN AnalyzeDone(Unhandled)
       ELSE LET normalized_content == NormalizeContentParts(a_request.content_parts) IN
            IF normalized_content.raised \/ ~Hashable(a_request.model) THEN AnalyzeDone(Unhandled)
            ELSE /\ sent' = SentPayload(IF InSet(a_request.model, PresetNames)
                                        THEN a_request.model.s ELSE "gpt-5-mini",
                                        normalized_content.value)
                 /\ apc' = "post"
                 /\ UNCHANGED <<API_KEY, a_request, upstream_calls, upstream, a_response>>

\* requests.post(OPENAI_API_URL, ...): the one round trip.
UpstreamPost ==
    /\ apc = "post"
    /\ upstream_calls' = upstream_calls + 1
    /\ \E u \in UpstreamUniverse : upstream' = u
    /\ apc' = "responded"
    /\ UNCHANGED <<API_KEY, a_request, sent, a_response>>

\* The rest of the try block and the except branch.  A 2xx/3xx body that
\* is not JSON makes response.json() raise: a RequestException in current
\* releases of requests (caught), a plain ValueError in older ones.
AnalyzeFinish ==
    /\ apc = "responded"
    /\ IF upstream.exc # "none" \/ RaisesForStatus(upstream.status)
       THEN AnalyzeDone(ErrorResponse(upstream))
       ELSE IF upstream.body = "not_json"
       THEN \/ AnalyzeDone(ErrorResponse(Upstream("json", FALSE, 0, "", NoPayload("null"))))
            \/ AnalyzeDone(Unhandled)
       ELSE AnalyzeDone(Response("json", 200, "",
                ExtractTextFromResponse(BodyAsPayload(upstream)).text))

(***************************************************************************)
(* _decode_data_url                                                        *)
(***************************************************************************)
\* An entry of "images".  For a string: prefix says it starts with
\* "data:", comma that it has a comma, base64 that ";base64" is in the
\* part before the comma; payload names the part after the comma.
DataUrl(k, prefix, comma, base64, payload) ==
    [k |-> k, prefix |-> prefix, comma |-> comma, base64 |-> base64, payload |-> payload]
NotAString(k) == DataUrl(k, FALSE, FALSE, FALSE, "")

\* base64.b64decode: the named payloads and the bytes they decode to;
\* "badpad" has incorrect padding and raises binascii.Error.
B64Decode(payload) ==
    CASE payload = "iVBORw==" -> [ok |-> TRUE, bytes |-> "PNG"]
      [] payload = "anVuaw==" -> [ok |-> TRUE, bytes |-> "junk"]
      [] payload = "" -> [ok |-> TRUE, bytes |-> ""]
      [] OTHER -> [ok |-> FALSE, bytes |-> ""]

\* The decoded bytes, "None" for None, or an AttributeError when a true
\* value that is not a string is asked for startswith.
Decoded(bytes) == [raised |-> FALSE, none |-> FALSE, bytes |-> bytes]
DecodedNone == [raised |-> FALSE, none |-> TRUE, bytes |-> ""]
DecodeRaised == [raised |-> TRUE, none |-> TRUE, bytes |-> ""]

DecodeDataUrl(data_url) ==
    IF data_url.k \in {"null", "absent"} THEN DecodedNone
    ELSE IF data_url.k # "str" THEN DecodeRaised
    ELSE IF ~data_url.prefix THEN DecodedNone
    ELSE IF ~data_url.comma THEN DecodedNone
    ELSE IF ~data_url.base64 THEN DecodedNone
    ELSE LET d == B64Decode(data_url.payload) IN
         IF d.ok THEN Decoded(d.bytes) ELSE DecodedNone

(***************************************************************************)
(* /create-report                                                          *)
(***************************************************************************)
\* str(value)
ToStr(v) ==
    CASE v.k = "str" -> v.cs
      [] v.k = "num" -> <<"7">>
      [] OTHER -> <<"None">>

\* value.get(key, "") followed by str()
StrOrEmpty(v) == IF v.k = "absent" THEN <<>> ELSE ToStr(v)

\* text.split('\n')
RECURSIVE SplitLines(_)
SplitLines(cs) ==
    IF \A i \in 1..Len(cs) : cs[i] # "\n" THEN <<cs>>
    ELSE LET i == CHOOSE n \in 1..Len(cs) :
                    cs[n] = "\n" /\ \A m \in 1..(n - 1) : cs[m] # "\n" IN
         <<SubSeq(cs, 1, i - 1)>> \o SplitLines(SubSeq(cs, i + 1, Len(cs)))

\* title.replace('.pdf', ''), the suffix being one token of the title
RECURSIVE RemovePdf(_)
RemovePdf(cs) ==
    IF cs = <<>> THEN <<>>
    ELSE (IF Head(cs) = ".pdf" THEN <<>> ELSE <<Head(cs)>>) \o RemovePdf(Tail(cs))

\* ", ".join(str(page) for page in pages)
RECURSIVE JoinPages(_)
JoinPages(pages) ==
    IF pages = <<>> THEN <<>>
    ELSE IF Len(pages) = 1 THEN <<pages[1]>>
    ELSE <<pages[1], ", ">> \o JoinPages(Tail(pages))

\* The document: its elements in order.
Element(el, level, text) == [el |-> el, level |-> level, text |-> text]
Heading(text, level) == Element("heading", level, text)
Paragraph(text) == Element("paragraph", 0, text)
PageBreak == Element("page_break", 0, <<>>)
Picture(bytes) == Element("picture", 6, <<bytes>>)
NoDocument == [created |-> FALSE, body |-> <<>>]

RECURSIVE Paragraphs(_)
Paragraphs(lines) ==
    IF lines = <<>> THEN <<>> ELSE <<Paragraph(Head(lines))>> \o Paragraphs(Tail(lines))

\* The request body as JSON.
Pages(k, items) == [k |-> k, items |-> items]
Group(k, id, pages, intent) == [k |-> k, id |-> id, pages |-> pages, intent |-> intent]
Images(k, items) == [k |-> k, items |-> items]
Result(k, group, images, analysis) ==
    [k |-> k, group |-> group, images |-> images, analysis |-> analysis]
Results(k, items) == [k |-> k, items |-> items]
Report(k, title, global_summary, analysis_results) ==
    [k |-> k, title |-> title, global_summary |-> global_summary,
     analysis_results |-> analysis_results]
EmptyObject == Report("dict", TAbsent, TAbsent, Results("absent", <<>>))
NoGroup(k) == Group(k, TAbsent, Pages("absent", <<>>), TAbsent)

\* is_json: the content type is JSON; body: "json" or "malformed"
ReportRequest(is_json, body, payload) ==
    [is_json |-> is_json, body |-> body, payload |-> payload]

ReportResponse(kind, status, body) == [kind |-> kind, status |-> status, body |-> body]
NoReportResponse == ReportResponse("none", 0, <<>>)
BadRequest == ReportResponse("json", 400, <<>>)
ReportUnhandled == ReportResponse("unhandled", 500, <<>>)

\* if not request.is_json
RejectedIfUnparsable(req) == ~req.is_json \/ req.body = "malformed"
Rejected(req) == ~req.is_json

\* request.get_json(silent=True) or {}: None for a body that does not
\* parse, and any false value, become the empty object
PayloadOrEmpty(req) ==
    IF req.body = "malformed" \/ req.payload.k \in {"null", "empty_list"}
    THEN EmptyObject ELSE req.payload

\* Lines 228-237: the title page and the summary.
Preamble(title, global_summary) ==
    <<Heading(RemovePdf(title), 0), Paragraph(<<"generated", "now">>), PageBreak,
      Heading(<<"Executive Summary">>, 1)>>
    \o Paragraphs(SplitLines(StrOrEmpty(global_summary)))
    \o <<PageBreak, Heading(<<"Detailed Analysis">>, 1)>>

\* One image of a group: the elements it adds, or a raise.
ImageElements(image_data_url) ==
    LET image_bytes == DecodeDataUrl(image_data_url) IN
    IF image_bytes.raised THEN Raised
    ELSE IF image_bytes.none \/ image_bytes.bytes = "" THEN Returned(<<>>)
    ELSE IF image_bytes.bytes = "PNG" THEN Returned(<<Picture(image_bytes.bytes)>>)
    ELSE Returned(<<Paragraph(<<"[image failed]">>)>>)

RECURSIVE ImagesElements(_)
ImagesElements(images) ==
    IF images = <<>> THEN Returned(<<>>)
    ELSE LET first == ImageElements(Head(images))
             rest == ImagesElements(Tail(images)) IN
         IF first.raised \/ rest.raised THEN Raised
         ELSE Returned(first.value \o rest.value)

IndexText(i) == <<CASE i = 1 -> "1" [] i = 2 -> "2" [] i = 3 -> "3" [] OTHER -> "n">>

\* The body of the loop over analysis_results: the elements one result
\* adds, or a raise.
GroupElements(i, result) ==
    LET group == IF result.k = "dict" /\ result.group.k = "dict"
                 THEN result.group ELSE NoGroup("dict")
        group_id == IF group.id.k = "absent" THEN IndexText(i) ELSE ToStr(group.id)
        pages == group.pages
        images == IF result.k = "dict" THEN result.images ELSE Images("list", <<>>)
        analysis_text == IF result.k = "dict" THEN StrOrEmpty(result.analysis) ELSE <<>>
    IN
    IF pages.k \notin {"absent", "list"} THEN Raised
    ELSE IF images.k \notin {"absent", "list"} THEN Raised
    ELSE LET pages_text == IF pages.items # <<>> THEN JoinPages(pages.items) ELSE <<"N/A">>
             pictures == ImagesElements(images.items) IN
         IF pictures.raised THEN Raised
         ELSE Returned(
                <<Heading(<<"Group ">> \o group_id \o <<" (pages: ">> \o pages_text \o <<")">>, 2),
                  Element("intent", 0, StrOrEmpty(group.intent))>>
                \o pictures.value
                \o Paragraphs(SplitLines(analysis_text))
                \o <<Paragraph(<<>>)>>)

(***************************************************************************)
(* Inputs of /create-report                                                *)
(***************************************************************************)
Url(payload) == DataUrl("str", TRUE, TRUE, TRUE, payload)
CoreImageUniverse ==
    { Url("iVBORw=="), Url("anVuaw=="), Url("badpad"), NotAString("num") }
OddImageUniverse ==
    { Url(""), NotAString("null"),
      DataUrl("str", FALSE, TRUE, TRUE, "iVBORw=="),
      DataUrl("str", TRUE, FALSE, FALSE, ""),
      DataUrl("str", TRUE, TRUE, FALSE, "iVBORw==") }

ImagesUniverse ==
    { Images("list", q) : q \in SeqsUpTo(CoreImageUniverse, MaxImages) }
    \cup { Images("list", <<x>>) : x \in OddImageUniverse }
    \cup { Images("absent", <<>>), Images("num", <<>>) }

PlainGroup == Group("dict", TAbsent, Pages("absent", <<>>), TStr(<<"i">>))
GroupUniverse ==
    { NoGroup("absent"), NoGroup("num"), NoGroup("dict"),
      Group("dict", TStr(<<"g">>), Pages("list", <<"1", "2">>), TStr(<<"i">>)),
      Group("dict", TAbsent, Pages("list", <<>>), TNum),
      Group("dict", TAbsent, Pages("num", <<>>), TAbsent) }

ResultUniverse ==
    { Result("num", NoGroup("absent"), Images("absent", <<>>), TAbsent) }
    \cup { Result("dict", g, Images("absent", <<>>), TStr(<<"x", "\n", "y">>)) :
             g \in GroupUniverse }
    \cup { Result("dict", PlainGroup, im, TStr(<<"x">>)) : im \in ImagesUniverse }
    \cup { Result("dict", PlainGroup, Images("absent", <<>>), t) : t \in {TAbsent, TNum} }

PlainResult == Result("dict", PlainGroup, Images("absent", <<>>), TStr(<<"x">>))
TitleUniverse == { TAbsent, TNum, TStr(<<"R", ".pdf">>), TStr(<<"R">>) }
SummaryUniverse == { TAbsent, TNum, TStr(<<"s", "\n", "t">>) }

ReportUniverse ==
    { Report("dict", t, g, r) :
        t \in TitleUniverse, g \in SummaryUniverse,
        r \in { Results("absent", <<>>), Results("num", <<>>), Results("list", <<PlainResult>>) } }
    \cup { Report("dict", TStr(<<"R">>), TStr(<<"s">>), Results("list", q)) :
             q \in SeqsUpTo(ResultUniverse, MaxResults) }
    \cup { Report(k, TAbsent, TAbsent, Results("absent", <<>>)) :
             k \in {"null", "empty_list", "list", "num"} }

ReportRequestUniverse ==
    { ReportRequest(TRUE, "json", p) : p \in ReportUniverse }
    \cup { ReportRequest(is_json, "malformed", EmptyObject) : is_json \in BOOLEAN }
    \cup { ReportRequest(FALSE, "json", Report("dict", TStr(<<"R">>), TStr(<<"s">>),
                                                Results("list", <<PlainResult>>))) }

RInit ==
    /\ rpc = "idle"
    /\ r_request = ReportRequest(FALSE, "malformed", EmptyObject)
    /\ document = NoDocument
    /\ index = 1
    /\ r_response = NoReportResponse

\* A POST /create-report arrives.
ReportReceive ==
    /\ rpc = "idle"
    /\ \E r \in ReportRequestUniverse : r_request' = r
    /\ rpc' = "handling"
    /\ document' = NoDocument
    /\ index' = 1
    /\ r_response' = NoReportResponse

ReportDone(resp) ==
    /\ r_response' = resp
    /\ rpc' = "done"

\* create_report() up to the loop: the is_json check, the payload, the
\* new Document with its title page and summary.
ReportBegin ==
    /\ rpc = "handling"
    /\ UNCHANGED <<r_request, index>>
    /\ IF Rejected(r_request) THEN ReportDone(BadRequest) /\ UNCHANGED document
       ELSE LET payload == PayloadOrEmpty(r_request)
                title == IF payload.title.k = "absent" THEN TStr(<<"Report">>)
                         ELSE payload.title IN
            IF payload.k # "dict" THEN ReportDone(ReportUnhandled) /\ UNCHANGED document
            ELSE IF title.k # "str"
            THEN /\ ReportDone(ReportUnhandled)
                 /\ document' = [created |-> TRUE, body |-> <<>>]
            ELSE /\ document' = [created |-> TRUE,
                                 body |-> Preamble(title.cs, payload.global_summary)]
                 /\ rpc' = "groups"
                 /\ UNCHANGED r_response

\* analysis_results, an empty list when it is not a list
AnalysisResults ==
    LET r == PayloadOrEmpty(r_request).analysis_results IN
    IF r.k = "list" THEN r.items ELSE <<>>

\* One turn of the loop over analysis_results.
ReportGroup ==
    /\ rpc = "groups"
    /\ index <= Len(AnalysisResults)
    /\ LET added == GroupElements(index, AnalysisResults[index]) IN
       IF added.raised
       THEN ReportDone(ReportUnhandled) /\ UNCHANGED <<document, index>>
       ELSE /\ document' = [document EXCEPT !.body = @ \o added.value]
            /\ index' = index + 1
            /\ UNCHANGED <<rpc, r_response>>
    /\ UNCHANGED r_request

\* document.save and send_file
ReportSend ==
    /\ rpc = "groups"
    /\ index > Len(AnalysisResults)
    /\ ReportDone(ReportResponse("docx", 200, document.body))
    /\ UNCHANGED <<r_request, document, index>>

RIdle ==
    /\ rpc = "off"
    /\ r_request = ReportRequest(FALSE, "malformed", EmptyObject)
    /\ document = NoDocument
    /\ index = 1
    /\ r_response = NoReportResponse

AIdle ==
    /\ API_KEY = Absent
    /\ apc = "off"
    /\ a_request = NoRequest
    /\ sent = NothingSent
    /\ upstream_calls = 0
    /\ upstream = NoUpstream
    /\ a_response = NoResponse

NIdle ==
    /\ npc = "idle"
    /\ content_parts = NonList("null")
    /\ normalized = NoResult
    /\ renormalized = NoResult

EIdle ==
    /\ epc = "idle"
    /\ response_payload = NoPayload("null")
    /\ extracted = ReturnedText(<<>>)

vars == <<nvars, evars, avars, rvars>>

NormInit == NInit /\ EIdle /\ AIdle /\ RIdle
NormalizeStep == Normalize /\ UNCHANGED <<evars, avars, rvars>>
RenormalizeStep == Renormalize /\ UNCHANGED <<evars, avars, rvars>>
NormNext == NormalizeStep \/ RenormalizeStep
NormSpec == NormInit /\ [][NormNext]_vars

ExtractInit == EInit /\ NIdle /\ AIdle /\ RIdle
ExtractNext == Extract /\ UNCHANGED <<nvars, avars, rvars>>
ExtractSpec == ExtractInit /\ [][ExtractNext]_vars

AnalyzeInit == AInit /\ NIdle /\ EIdle /\ RIdle
AnalyzeReceiveStep == AnalyzeReceive /\ UNCHANGED <<nvars, evars, rvars>>
AnalyzePrepareStep == AnalyzePrepare /\ UNCHANGED <<nvars, evars, rvars>>
UpstreamPostStep == UpstreamPost /\ UNCHANGED <<nvars, evars, rvars>>
AnalyzeFinishStep == AnalyzeFinish /\ UNCHANGED <<nvars, evars, rvars>>
AnalyzeNext ==
    AnalyzeReceiveStep \/ AnalyzePrepareStep \/ UpstreamPostStep \/ AnalyzeFinishStep
AnalyzeSpec == AnalyzeInit /\ [][AnalyzeNext]_vars
\* Once accepted, the handler runs on; only the upstream may never answer.
AnalyzeFairSpec ==
    AnalyzeSpec /\ WF_vars(AnalyzePrepareStep) /\ WF_vars(AnalyzeFinishStep)

ReportInit == RInit /\ NIdle /\ EIdle /\ AIdle
ReportReceiveStep == ReportReceive /\ UNCHANGED <<nvars, evars, avars>>
ReportBeginStep == ReportBegin /\ UNCHANGED <<nvars, evars, avars>>
ReportGroupStep == ReportGroup /\ UNCHANGED <<nvars, evars, avars>>
ReportSendStep == ReportSend /\ UNCHANGED <<nvars, evars, avars>>
ReportNext == ReportReceiveStep \/ ReportBeginStep \/ ReportGroupStep \/ ReportSendStep
ReportSpec == ReportInit /\ [][ReportNext]_vars

(***************************************************************************)
(* Properties of _normalize_content_parts                                  *)
(***************************************************************************)
\* The elements of items at the indices idxs, in increasing index order.
Pick(items, idxs) ==
    [j \in 1..Cardinality(idxs) |->
        items[CHOOSE i \in idxs : Cardinality({m \in idxs : m < i}) = j - 1]]

TypeIn(p, S) == p.k = "dict" /\ p.type.k = "str" /\ p.type.s \in S

\* A text part with a string text, or an image part with a non-empty URL
\* given directly or under "url".
YieldsText(p) == TypeIn(p, TextTypes) /\ p.text.k = "str"
YieldsImage(p) ==
    /\ TypeIn(p, ImageTypes)
    /\ \/ p.image_url.k = "str" /\ p.image_url.s # ""
       \/ p.image_url.k = "dict" /\ p.image_url.url.k = "str" /\ p.image_url.url.s # ""
Yields(p) == YieldsText(p) \/ YieldsImage(p)
PassedThrough(p) == TypeIn(p, PassTypes)

\* The canonical part for an element that yields one.
Canonical(p) ==
    IF YieldsText(p) THEN Mapping(Str("input_text"), Str(p.text.s), IAbsent, "")
    ELSE IF YieldsImage(p) THEN
        Mapping(Str("input_image"), Absent,
                IStr(IF p.image_url.k = "str" THEN p.image_url.s ELSE p.image_url.url.s), "")
    ELSE p

UnhashableType(p) == p.k = "dict" /\ p.type.k \in {"list", "dict"}

Items == content_parts.items
Indices == 1..Len(Items)
NormalizeReturned == npc # "start" /\ content_parts.k = "list" /\ ~normalized.raised
Emitting == {i \in Indices : Yields(Items[i]) \/ PassedThrough(Items[i])}

C10_Idempotent ==
    /\ npc = "renormalized" => renormalized = normalized
    /\ NormalizeReturned =>
        /\ Len(normalized.value) <= Cardinality({i \in Indices : Items[i].k = "dict"})
        /\ \A j \in 1..Len(normalized.value) :
            \/ \E i \in Indices : normalized.value[j] = Items[i]
            \/ /\ TypeIn(normalized.value[j], {"input_text", "input_image"})
               /\ normalized.value[j].extra = ""

\* A second pass over an output holding a converted legacy part and a
\* passed-through block.
C10_Witness ==
    /\ npc = "renormalized" /\ ~renormalized.raised
    /\ Len(renormalized.value) = 2
    /\ \E j \in 1..2 : \A i \in Indices : renormalized.value[j] # Items[i]
    /\ \E j \in 1..2 : PassedThrough(renormalized.value[j])

(***************************************************************************)
(* Properties of _extract_text_from_response                               *)
(***************************************************************************)
Extracted == epc = "extracted"
IsDict == response_payload.k = "dict"
OutputText == response_payload.output_text
NonEmptyString(t) == t.k = "str" /\ Len(t.cs) >= 1
HasVisibleChar(t) == t.k = "str" /\ \E i \in 1..Len(t.cs) : t.cs[i] \notin {" ", "\n"}

\* The "text" values of the content blocks of the message items of
\* "output", in encounter order: all strings, or only the non-empty ones.
IsMessage(item) ==
    item.k = "dict" /\ item.type = Str("message") /\ item.content.k = "list"
TextsOfBlocks(blocks, nonEmptyOnly) ==
    LET texts == [j \in 1..Len(blocks) |-> blocks[j].text.cs] IN
    Pick(texts, {j \in 1..Len(blocks) :
                    /\ blocks[j].k = "dict" /\ blocks[j].text.k = "str"
                    /\ (nonEmptyOnly => blocks[j].text.cs # <<>>)})
RECURSIVE TextsOfItems(_, _)
TextsOfItems(items, nonEmptyOnly) ==
    IF items = <<>> THEN <<>>
    ELSE (IF IsMessage(items[1])
          THEN TextsOfBlocks(items[1].content.blocks, nonEmptyOnly) ELSE <<>>)
         \o TextsOfItems(Tail(items), nonEmptyOnly)
MessageTexts(nonEmptyOnly) ==
    IF response_payload.output.k = "list"
    THEN TextsOfItems(response_payload.output.items, nonEmptyOnly) ELSE <<>>

\* strs[1] \n strs[2] \n ... strs[n]
RECURSIVE Lines(_)
Lines(strs) ==
    IF Len(strs) = 0 THEN <<>>
    ELSE IF Len(strs) = 1 THEN strs[1]
    ELSE Lines(SubSeq(strs, 1, Len(strs) - 1)) \o <<"\n">> \o strs[Len(strs)]

HasLegacyContent ==
    /\ response_payload.choices.k = "list" /\ response_payload.choices.items # <<>>
    /\ response_payload.choices.items[1].k = "dict"
    /\ response_payload.choices.items[1].message.k = "dict"
    /\ response_payload.choices.items[1].message.content.k = "str"

\* C3 as stated: a non-empty string output_text, whitespace-only included,
\* is returned as it is whatever "output" and "choices" hold.
C3_NonEmptyOutputTextReturned ==
    (Extracted /\ IsDict /\ NonEmptyString(OutputText))
    => extracted = ReturnedText(OutputText.cs)

\* C3 amended: a string output_text with at least one non-whitespace
\* character is returned as it is whatever "output" and "choices" hold.
C3_VisibleOutputTextReturned ==
    (Extracted /\ IsDict /\ HasVisibleChar(OutputText))
    => extracted = ReturnedText(OutputText.cs)

\* output_text wins over a message text and a legacy content.
C3_Witness ==
    /\ Extracted /\ IsDict /\ HasVisibleChar(OutputText)
    /\ OutputText.cs # Strip(OutputText.cs)
    /\ MessageTexts(TRUE) # <<>>
    /\ HasLegacyContent
    /\ extracted.text = OutputText.cs

\* C4 as stated: without a non-empty string output_text, when a message
\* item has a content block with a string text, the result is all the
\* string texts joined by newlines, ahead of the legacy content.
C4_AllStringTextsJoined ==
    (Extracted /\ IsDict /\ ~NonEmptyString(OutputText) /\ MessageTexts(FALSE) # <<>>)
    => extracted = ReturnedText(Lines(MessageTexts(FALSE)))

\* C4 amended: without a non-empty string output_text, when a message
\* item has a content block with a non-empty string text, the result is
\* all the non-empty string texts joined by newlines, ahead of the legacy
\* content.
C4_NonEmptyTextsJoined ==
    (Extracted /\ IsDict /\ ~NonEmptyString(OutputText) /\ MessageTexts(TRUE) # <<>>)
    => extracted = ReturnedText(Lines(MessageTexts(TRUE)))

\* Texts of two items, an empty text among them, and a legacy content.
C4_Witness ==
    /\ Extracted /\ IsDict /\ ~NonEmptyString(OutputText)
    /\ HasLegacyContent
    /\ Len(response_payload.output.items) = 2
    /\ IsMessage(response_payload.output.items[1])
    /\ IsMessage(response_payload.output.items[2])
    /\ MessageTexts(TRUE) = <<(<<"b">>), (<<"a">>), (<<"b">>)>>
    /\ Len(MessageTexts(FALSE)) = 4
    /\ extracted.text = <<"b", "\n", "a", "\n", "b">>

\* C5: the extractor returns a string for every payload and never raises,
\* and returns the empty string when no rule finds a text.
C5_Total ==
    Extracted =>
        /\ ~extracted.raised
        /\ (~IsDict \/ (~HasVisibleChar(OutputText) /\ MessageTexts(TRUE) = <<>>
                          /\ ~HasLegacyContent))
            => extracted.text = <<>>

\* Values of the wrong type at every inspected position.
C5_Witness ==
    /\ Extracted /\ IsDict /\ OutputText.k = "num"
    /\ Len(response_payload.output.items) = 2
    /\ response_payload.output.items[1].k = "num"
    /\ response_payload.output.items[2].k = "dict"
    /\ response_payload.output.items[2].content.k = "list"
    /\ Len(response_payload.output.items[2].content.blocks) = 2
    /\ response_payload.output.items[2].content.blocks[1].k = "num"
    /\ response_payload.output.items[2].content.blocks[2].text.k = "num"
    /\ response_payload.choices.k = "list" /\ response_payload.choices.items # <<>>
    /\ response_payload.choices.items[1].message.content.k = "num"
    /\ extracted = ReturnedText(<<>>)

(***************************************************************************)
(* Properties of /analyze                                                  *)
(***************************************************************************)
AnalyzeEnded == apc = "done"
\* The upstream call failed: requests.post raised, or the status is one
\* raise_for_status raises for.
UpstreamFailed ==
    \/ upstream.exc \in {"connection", "redirects"}
    \/ upstream.exc = "none" /\ upstream.status >= 400
BodyIsJson == upstream.body # "not_json"

\* C6: after a failed upstream call the handler answers 500 {error}; the
\* text is the body's error.message when there is a response with a JSON
\* body, the raw body when the body is not JSON, and the transport error's
\* description only when there is no response.
C6_ErrorTextOrder ==
    (AnalyzeEnded /\ UpstreamFailed)
    => /\ a_response.kind = "json" /\ a_response.status = 500
       /\ (upstream.has_response /\ upstream.body = "error_message")
            => a_response.error = "body_message"
       /\ (upstream.has_response /\ ~BodyIsJson) => a_response.error = "raw_text"
       /\ ~upstream.has_response => a_response.error = "exc_str"

TokenAbsent == API_KEY.k = "absent" \/ (API_KEY.k = "str" /\ API_KEY.s = "")

\* C7: without a token every request ends with the fixed 500 error and the
\* upstream is never called for it; with a token a request makes at most
\* one upstream call.
C7_FailFastWithoutUpstreamCall ==
    /\ [](TokenAbsent => (upstream_calls = 0 /\ upstream = NoUpstream /\ sent = NothingSent))
    /\ [](upstream_calls <= 1)
    /\ []((AnalyzeEnded /\ TokenAbsent) => a_response = MissingKeyResponse)
    /\ ((apc = "handling" /\ TokenAbsent) ~> (AnalyzeEnded /\ a_response = MissingKeyResponse))

\* An empty token and a request body that is not even an object.
C7_Witness ==
    /\ AnalyzeEnded /\ API_KEY = Str("") /\ a_request.body = "other"
    /\ a_response = MissingKeyResponse /\ upstream_calls = 0

(***************************************************************************)
(* Properties of /create-report                                            *)
(***************************************************************************)
ReportEnded == rpc = "done"
BodyParses == r_request.body = "json"

DefaultDocument ==
    <<Heading(<<"Report">>, 0), Paragraph(<<"generated", "now">>), PageBreak,
      Heading(<<"Executive Summary">>, 1), Paragraph(<<>>),
      PageBreak, Heading(<<"Detailed Analysis">>, 1)>>

GroupHeadings(body) == SelectSeq(body, LAMBDA e : e.el = "heading" /\ e.level = 2)
IntentParagraphs(body) == SelectSeq(body, LAMBDA e : e.el = "intent")

\* C9: a request whose body is a JSON object always gets a document,
\* whatever the types of its sub-fields, with a
\* group heading and an intent paragraph for each element of
\* analysis_results.
C9_NeverAborts ==
    (ReportEnded /\ r_request.is_json /\ BodyParses /\ r_request.payload.k = "dict")
    => /\ r_response.kind = "docx"
       /\ Len(GroupHeadings(r_response.body)) = Len(AnalysisResults)
       /\ Len(IntentParagraphs(r_response.body)) = Len(AnalysisResults)

====
